---- MODULE Spec2Model ----
(***************************************************************************)
(* Sparse Merkle tree of risc0-smt: Smt (get / insert / remove and the     *)
(* path recomputation), SmtLeaf (the collision bucket), NodeIndex,         *)
(* MerklePath and SmtProof.                                                *)
(*                                                                         *)
(* Digests are symbolic terms, so that the hash primitive is collision     *)
(* free: <<"W", words>> is hash_words(words), <<"P", a, b>> is             *)
(* hash_pair(a, b), and <<"E", h>> is the h-fold pairing of the all-zero   *)
(* digest with itself (<<"E", 0>> is Digest::ZERO), kept in run-length     *)
(* form because the term of an empty subtree of height 64 has 2^64 leaves. *)
(*                                                                         *)
(* The tree is scaled: a key word has WordBits bits instead of 32, and the *)
(* leaf index, made of two words, has LEAF_DEPTH = 2 * WordBits bits       *)
(* instead of 64, so that the root is still reached after LEAF_DEPTH       *)
(* halvings of a leaf index.                                               *)
(***************************************************************************)
EXTENDS Integers, Sequences, FiniteSets, TLC

VARIABLES root, leaves, inner_nodes, op, map, vcall, other

vars == <<root, leaves, inner_nodes, op, map, vcall, other>>

\* ------------------------------------------------------------------ bounds
MaxValueWord == 2

\* width of a key word (u32 in the source)
WordBits == 2

\* --------------------------------------------------------------- constants
\* pub const LEAF_DEPTH: u8 = 64, the width of the u64 made of two words
LEAF_DEPTH == 2 * WordBits

\* NodeIndex::depth is a u8
U8_MODULUS == 256

None == <<>>

Some(x) == <<x>>

\* Value::EMPTY
EMPTY == <<0, 0, 0, 0, 0, 0, 0, 0>>

\* Key([w0, 0, 0, 0, 0, 0, w6, w7])
Key(w0, w6, w7) == <<w0, 0, 0, 0, 0, 0, w6, w7>>

\* two keys of leaf 0 (a collision bucket; the first is Key([0; 8]), the
\* second key_1 of test_insert), one of leaf 1 (the sibling of leaf 0) and
\* one of leaf 2^WordBits (key_2 of test_insert)
Keys == {Key(0, 0, 0), Key(1, 0, 0), Key(0, 1, 0), Key(0, 0, 1)}

Value(w0) == <<w0, 0, 0, 0, 0, 0, 0, 0>>

Values == {Value(w) : w \in 1..MaxValueWord}

\* ----------------------------------------------------------- hash primitive
\* Digest::ZERO
ZERO == <<"E", 0>>

\* H::hash_pair: injective, P(E_h, E_h) written E_(h+1)
hash_pair(a, b) ==
    IF a = b /\ a[1] = "E" THEN <<"E", a[2] + 1>> ELSE <<"P", a, b>>

\* H::hash_words: injective, never a pair digest nor ZERO
hash_words(words) == <<"W", words>>

\* ------------------------------------------------------- EmptySubtreeRoots
RECURSIVE empty_subtree(_, _)
empty_subtree(leaf_depth, depth) ==
    IF depth >= leaf_depth
    THEN ZERO
    ELSE LET below == empty_subtree(leaf_depth, depth + 1)
         IN  hash_pair(below, below)

EmptySubtreeRoots == [d \in 0..LEAF_DEPTH |-> empty_subtree(LEAF_DEPTH, d)]

\* EmptySubtreeRoots::entry(leaf_depth, depth), memoized
entry(leaf_depth, depth) == EmptySubtreeRoots[depth]

\* ------------------------------------------------------------------- leaf.rs
\* the little-endian bytes of word 6 are the low half of the index, those of
\* word 7 the high half
key_to_leaf_index(key) ==
    [value |-> (key[7] % (2 ^ WordBits)) + (key[8] % (2 ^ WordBits)) * (2 ^ WordBits)]

\* impl From<LeafIndex> for NodeIndex
NodeIndexFrom(leaf) == [depth |-> LEAF_DEPTH, value |-> leaf.value]

\* derived Ord of Key: lexicographic on the eight words
KeyLess(a, b) ==
    \E i \in 1..8 : a[i] < b[i] /\ \A j \in 1..(i - 1) : a[j] = b[j]

\* iteration order of BTreeMap<Key, Value>
RECURSIVE KeysAscending(_)
KeysAscending(S) ==
    IF S = {}
    THEN <<>>
    ELSE LET m == CHOOSE k \in S : \A o \in S \ {k} : KeyLess(k, o)
         IN  <<m>> \o KeysAscending(S \ {m})

SmtLeafNew(index) == [index |-> index, kvs |-> <<>>]

SmtLeafNewSingle(key, value) ==
    [index |-> key_to_leaf_index(key), kvs |-> (key :> value)]

SmtLeafGet(leaf, key) ==
    IF key_to_leaf_index(key) # leaf.index
    THEN None
    ELSE Some(IF key \in DOMAIN leaf.kvs THEN leaf.kvs[key] ELSE EMPTY)

SmtLeafGetDirect(leaf, key) ==
    IF key \in DOMAIN leaf.kvs THEN Some(leaf.kvs[key]) ELSE None

\* debug_assert_eq!(key_to_leaf_index(key), self.index) of get_direct and insert
SmtLeafIndexAssertion(leaf, key) == key_to_leaf_index(key) = leaf.index

SmtLeafIsEmpty(leaf) == DOMAIN leaf.kvs = {}

\* mutant: the previous value is dropped
SmtLeafInsert_NoOld(leaf, key, value) ==
    [leaf |-> [leaf EXCEPT !.kvs = (key :> value) @@ leaf.kvs],
     ret  |-> EMPTY]

SmtLeafInsert(leaf, key, value) ==
    [leaf |-> [leaf EXCEPT !.kvs = (key :> value) @@ leaf.kvs],
     ret  |-> IF key \in DOMAIN leaf.kvs THEN leaf.kvs[key] ELSE EMPTY]

\* mutant: the removal clears the whole bucket
SmtLeafRemove_ClearsBucket(leaf, key) ==
    [leaf |-> [leaf EXCEPT !.kvs = <<>>],
     ret  |-> IF key \in DOMAIN leaf.kvs THEN Some(leaf.kvs[key]) ELSE None]

SmtLeafRemove(leaf, key) ==
    [leaf |-> [leaf EXCEPT !.kvs =
                  [k \in (DOMAIN leaf.kvs) \ {key} |-> leaf.kvs[k]]],
     ret  |-> IF key \in DOMAIN leaf.kvs THEN Some(leaf.kvs[key]) ELSE None]

RECURSIVE FlatWords(_, _)
FlatWords(kvs, order) ==
    IF order = <<>>
    THEN <<>>
    ELSE Head(order) \o kvs[Head(order)] \o FlatWords(kvs, Tail(order))

SmtLeafHash(leaf) ==
    LET words == FlatWords(leaf.kvs, KeysAscending(DOMAIN leaf.kvs))
    IN  IF words = <<>> THEN None ELSE Some(hash_words(words))

\* ----------------------------------------------------------------- NodeIndex
\* u8 subtraction and u64 halving; the u8 wraps when overflow checks are off
move_up(index) ==
    [depth |-> (index.depth - 1) % U8_MODULUS,
     value |-> index.value \div 2]

get_side(index) == IF index.value % 2 = 0 THEN "Left" ELSE "Right"

\* ----------------------------------------------------------------------- Smt
\* mutant: the root of a new tree is taken one level too deep
SmtNew_DepthOne ==
    [root        |-> entry(LEAF_DEPTH, 1),
     leaves      |-> <<>>,
     inner_nodes |-> <<>>]

SmtNew ==
    LET empty_subtree_1 == entry(LEAF_DEPTH, 1)
    IN  [root        |-> hash_pair(empty_subtree_1, empty_subtree_1),
         leaves      |-> <<>>,
         inner_nodes |-> <<>>]

get_inner_node(inner, index) ==
    IF index \in DOMAIN inner
    THEN inner[index]
    ELSE LET node == entry(LEAF_DEPTH, index.depth + 1)
         IN  [left |-> node, right |-> node]

\* mutant: the loop stores every node and never prunes
RECURSIVE RecomputeLoop_NoPrune(_, _, _, _)
RecomputeLoop_NoPrune(inner, node_hash, index, node_depth) ==
    IF node_depth < 0
    THEN [inner_nodes |-> inner, root |-> node_hash]
    ELSE LET side  == get_side(index)
             up    == move_up(index)
             node  == get_inner_node(inner, up)
             left  == IF side = "Left" THEN node_hash ELSE node.left
             right == IF side = "Left" THEN node.right ELSE node_hash
             inner2 == (up :> [left |-> left, right |-> right]) @@ inner
         IN  RecomputeLoop_NoPrune(inner2, hash_pair(left, right), up,
                                   node_depth - 1)

\* the for loop of recompute_nodes_from_leaf_to_root; node_depth runs from
\* index.depth - 1 down to 0
RECURSIVE RecomputeLoop(_, _, _, _)
RecomputeLoop(inner, node_hash, index, node_depth) ==
    IF node_depth < 0
    THEN [inner_nodes |-> inner, root |-> node_hash]
    ELSE LET side  == get_side(index)
             up    == move_up(index)
             node  == get_inner_node(inner, up)
             left  == IF side = "Left" THEN node_hash ELSE node.left
             right == IF side = "Left" THEN node.right ELSE node_hash
             new_hash == hash_pair(left, right)
             inner2 ==
                 IF new_hash = entry(LEAF_DEPTH, node_depth)
                 THEN [i \in (DOMAIN inner) \ {up} |-> inner[i]]
                 ELSE (up :> [left |-> left, right |-> right]) @@ inner
         IN  RecomputeLoop(inner2, new_hash, up, node_depth - 1)

recompute_nodes_from_leaf_to_root(s, leaf_index, leaf_hash) ==
    LET start ==
            IF leaf_hash # None
            THEN [node_hash |-> leaf_hash[1], index |-> NodeIndexFrom(leaf_index)]
            ELSE LET index == NodeIndexFrom(leaf_index)
                     side  == get_side(index)
                     up    == move_up(index)
                     node  == get_inner_node(s.inner_nodes, up)
                     left  == IF side = "Left" THEN ZERO ELSE node.left
                     right == IF side = "Left" THEN node.right ELSE ZERO
                 IN  [node_hash |-> hash_pair(left, right), index |-> up]
        done == RecomputeLoop(s.inner_nodes, start.node_hash, start.index,
                              start.index.depth - 1)
    IN  [s EXCEPT !.inner_nodes = done.inner_nodes, !.root = done.root]

\* mutant: the leaf is looked up with entry().or_insert_with, as insert does
SmtRemove_CreatesLeaf(s, key) ==
    LET leaf_index == key_to_leaf_index(key)
    IN  IF leaf_index.value \notin DOMAIN s.leaves
        THEN [s   |-> [s EXCEPT !.leaves =
                          (leaf_index.value :> SmtLeafNew(leaf_index)) @@ s.leaves],
              ret |-> EMPTY]
        ELSE LET removed == SmtLeafRemove(s.leaves[leaf_index.value], key)
             IN  IF removed.ret = None
                 THEN [s |-> s, ret |-> EMPTY]
                 ELSE LET s1 == [s EXCEPT !.leaves[leaf_index.value] =
                                     removed.leaf]
                      IN  [s   |-> recompute_nodes_from_leaf_to_root(
                                       s1, leaf_index, SmtLeafHash(removed.leaf)),
                           ret |-> removed.ret[1]]

SmtRemove(s, key) ==
    LET leaf_index == key_to_leaf_index(key)
    IN  IF leaf_index.value \notin DOMAIN s.leaves
        THEN [s |-> s, ret |-> EMPTY]
        ELSE LET removed == SmtLeafRemove(s.leaves[leaf_index.value], key)
             IN  IF removed.ret = None
                 THEN [s |-> s, ret |-> EMPTY]
                 ELSE LET s1 == [s EXCEPT !.leaves[leaf_index.value] =
                                     removed.leaf]
                      IN  [s   |-> recompute_nodes_from_leaf_to_root(
                                       s1, leaf_index, SmtLeafHash(removed.leaf)),
                           ret |-> removed.ret[1]]

\* mutant: the leaf is looked up (and created) before the EMPTY test
SmtInsert_LooksUpFirst(s, key, value) ==
    LET leaf_index == key_to_leaf_index(key)
        leaf == IF leaf_index.value \in DOMAIN s.leaves
                THEN s.leaves[leaf_index.value]
                ELSE SmtLeafNew(leaf_index)
        s0 == [s EXCEPT !.leaves = (leaf_index.value :> leaf) @@ s.leaves]
    IN  IF value = EMPTY
        THEN SmtRemove(s0, key)
        ELSE LET inserted == SmtLeafInsert(leaf, key, value)
                 s1 == [s EXCEPT !.leaves =
                           (leaf_index.value :> inserted.leaf) @@ s.leaves]
             IN  IF inserted.ret = value
                 THEN [s |-> s1, ret |-> value]
                 ELSE [s   |-> recompute_nodes_from_leaf_to_root(
                                   s1, leaf_index, SmtLeafHash(inserted.leaf)),
                       ret |-> inserted.ret]

\* mutant: a new leaf is built with LeafIndex::default()
SmtInsert_DefaultIndex(s, key, value) ==
    IF value = EMPTY
    THEN SmtRemove(s, key)
    ELSE LET leaf_index == key_to_leaf_index(key)
             leaf == IF leaf_index.value \in DOMAIN s.leaves
                     THEN s.leaves[leaf_index.value]
                     ELSE SmtLeafNew([value |-> 0])
             inserted == SmtLeafInsert(leaf, key, value)
             s1 == [s EXCEPT !.leaves =
                       (leaf_index.value :> inserted.leaf) @@ s.leaves]
         IN  IF inserted.ret = value
             THEN [s |-> s1, ret |-> value]
             ELSE [s   |-> recompute_nodes_from_leaf_to_root(
                               s1, leaf_index, SmtLeafHash(inserted.leaf)),
                   ret |-> inserted.ret]

\* mutant: an EMPTY value is stored like any other
SmtInsert_StoresEmpty(s, key, value) ==
    LET leaf_index == key_to_leaf_index(key)
        leaf == IF leaf_index.value \in DOMAIN s.leaves
                THEN s.leaves[leaf_index.value]
                ELSE SmtLeafNew(leaf_index)
        inserted == SmtLeafInsert(leaf, key, value)
        s1 == [s EXCEPT !.leaves =
                  (leaf_index.value :> inserted.leaf) @@ s.leaves]
    IN  IF inserted.ret = value
        THEN [s |-> s1, ret |-> value]
        ELSE [s   |-> recompute_nodes_from_leaf_to_root(
                          s1, leaf_index, SmtLeafHash(inserted.leaf)),
              ret |-> inserted.ret]

SmtInsert(s, key, value) ==
    IF value = EMPTY
    THEN SmtRemove(s, key)
    ELSE LET leaf_index == key_to_leaf_index(key)
             leaf == IF leaf_index.value \in DOMAIN s.leaves
                     THEN s.leaves[leaf_index.value]
                     ELSE SmtLeafNew(leaf_index)
             inserted == SmtLeafInsert(leaf, key, value)
             s1 == [s EXCEPT !.leaves =
                       (leaf_index.value :> inserted.leaf) @@ s.leaves]
         IN  IF inserted.ret = value
             THEN [s |-> s1, ret |-> value]
             ELSE [s   |-> recompute_nodes_from_leaf_to_root(
                               s1, leaf_index, SmtLeafHash(inserted.leaf)),
                   ret |-> inserted.ret]

RECURSIVE PathNodes(_, _, _)
PathNodes(inner, index, remaining) ==
    IF remaining = 0
    THEN <<>>
    ELSE LET side == get_side(index)
             up   == move_up(index)
             node == get_inner_node(inner, up)
         IN  <<IF side = "Left" THEN node.right ELSE node.left>>
                 \o PathNodes(inner, up, remaining - 1)

MerklePathNew(nodes) == [nodes |-> nodes]

SmtGet(s, key) ==
    LET leaf_index == key_to_leaf_index(key)
        leaf == IF leaf_index.value \in DOMAIN s.leaves
                THEN s.leaves[leaf_index.value]
                ELSE SmtLeafNew(leaf_index)
        found == SmtLeafGetDirect(leaf, key)
    IN  [value |-> IF found = None THEN EMPTY ELSE found[1],
         proof |-> [path |-> MerklePathNew(
                                PathNodes(s.inner_nodes,
                                          NodeIndexFrom(leaf_index), LEAF_DEPTH)),
                    leaf |-> leaf]]

get_root(s) == s.root

\* ------------------------------------------------------ MerklePath / SmtProof
\* the fold of MerklePath::compute_root over nodes[i..]; `checks` is the
\* build's overflow-checks setting (on: `depth -= 1` at depth 0 panics)
RECURSIVE ComputeRootFold(_, _, _, _, _)
ComputeRootFold(nodes, i, node, index, checks) ==
    IF i > Len(nodes)
    THEN [panic |-> FALSE, digest |-> node]
    ELSE IF checks /\ index.depth = 0
    THEN [panic |-> TRUE, digest |-> ZERO]
    ELSE LET sibling == nodes[i]
             next == IF get_side(index) = "Left"
                     THEN hash_pair(node, sibling)
                     ELSE hash_pair(sibling, node)
         IN  ComputeRootFold(nodes, i + 1, next, move_up(index), checks)

MerklePathComputeRoot(path, index_value, init_hash, checks) ==
    LET index == [depth |-> Len(path.nodes) % U8_MODULUS, value |-> index_value]
        side  == get_side(index)
    IN  IF checks /\ index.depth = 0
        THEN [panic |-> TRUE, digest |-> ZERO]
        ELSE IF Len(path.nodes) = 0
        THEN [panic |-> TRUE, digest |-> ZERO]
        ELSE LET sibling == path.nodes[1]
                 first == IF side = "Left"
                          THEN hash_pair(init_hash, sibling)
                          ELSE hash_pair(sibling, init_hash)
             IN  ComputeRootFold(path.nodes, 2, first, move_up(index), checks)

SmtProofComputeRoot(proof, checks) ==
    LET leaf_hash == SmtLeafHash(proof.leaf)
    IN  MerklePathComputeRoot(proof.path, proof.leaf.index.value,
                              IF leaf_hash = None THEN ZERO ELSE leaf_hash[1],
                              checks)

\* "true" / "false" are the returned bool, "panic" is an unwinding panic
SmtProofVerify(proof, key, value, rt, checks) ==
    LET leaf_value == SmtLeafGet(proof.leaf, key)
    IN  IF leaf_value = None
        THEN "false"
        ELSE IF leaf_value[1] # value
        THEN "false"
        ELSE LET proof_root == SmtProofComputeRoot(proof, checks)
             IN  IF proof_root.panic
                 THEN "panic"
                 ELSE IF proof_root.digest = rt THEN "true" ELSE "false"

\* --------------------------------------------------------------- state machine
Smt == [root |-> root, leaves |-> leaves, inner_nodes |-> inner_nodes]

AllValues == Values \cup {EMPTY}

\* no proof.verify call of a caller-built proof is under way
NoCall ==
    [proof |-> [path |-> MerklePathNew(<<>>), leaf |-> SmtLeafNew([value |-> 0])],
     key |-> EMPTY, value |-> EMPTY, root |-> ZERO, checks |-> TRUE,
     result |-> "idle"]

Init ==
    /\ root = SmtNew.root
    /\ leaves = SmtNew.leaves
    /\ inner_nodes = SmtNew.inner_nodes
    /\ op = [name |-> "new", key |-> EMPTY, value |-> EMPTY, ret |-> EMPTY,
             old |-> EMPTY, verified |-> "none"]
    /\ map = [k \in Keys |-> EMPTY]
    /\ vcall = NoCall
    /\ other = SmtNew

Insert(key, value) ==
    LET r == SmtInsert(Smt, key, value)
    IN  /\ root' = r.s.root
        /\ leaves' = r.s.leaves
        /\ inner_nodes' = r.s.inner_nodes
        /\ op' = [name |-> "insert", key |-> key, value |-> value,
                  ret |-> r.ret, old |-> map[key], verified |-> "none"]
        /\ map' = [map EXCEPT ![key] = value]
        /\ UNCHANGED <<vcall, other>>

Remove(key) ==
    LET r == SmtRemove(Smt, key)
    IN  /\ root' = r.s.root
        /\ leaves' = r.s.leaves
        /\ inner_nodes' = r.s.inner_nodes
        /\ op' = [name |-> "remove", key |-> key, value |-> EMPTY,
                  ret |-> r.ret, old |-> map[key], verified |-> "none"]
        /\ map' = [map EXCEPT ![key] = EMPTY]
        /\ UNCHANGED <<vcall, other>>

\* mutant: get stores the placeholder leaf it builds for an absent leaf
Get_StoresPlaceholder(key) ==
    LET g == SmtGet(Smt, key)
        i == key_to_leaf_index(key).value
    IN  /\ op' = [name |-> "get", key |-> key, value |-> EMPTY,
                  ret |-> g.value, old |-> map[key],
                  verified |-> SmtProofVerify(g.proof, key, g.value,
                                              get_root(Smt), TRUE)]
        /\ leaves' = (IF i \in DOMAIN leaves THEN leaves
                      ELSE (i :> g.proof.leaf) @@ leaves)
        /\ UNCHANGED <<root, inner_nodes, map, vcall, other>>

\* get(key) followed by proof.verify(key, value, get_root())
Get(key) ==
    LET g == SmtGet(Smt, key)
    IN  /\ op' = [name |-> "get", key |-> key, value |-> EMPTY,
                  ret |-> g.value, old |-> map[key],
                  verified |-> SmtProofVerify(g.proof, key, g.value,
                                              get_root(Smt), TRUE)]
        /\ UNCHANGED <<root, leaves, inner_nodes, map, vcall, other>>

Next ==
    \/ \E key \in Keys, value \in AllValues : Insert(key, value)
    \/ \E key \in Keys : Remove(key)
    \/ \E key \in Keys : Get(key)

Spec == Init /\ [][Next]_vars

\* ------------------------------------------- proof.verify on caller-built proofs
\* SmtProof, MerklePath and their fields are public: a caller can hand verify
\* any leaf with any list of digests.
MaxPathLen == 2

\* a tree holding only the key of leaf 1, whose digest is a sibling of leaf 0
OneKeyTree == SmtInsert(SmtNew, Key(0, 1, 0), Value(1)).s

ProofLeaves ==
    {SmtLeafNew(key_to_leaf_index(k)) : k \in Keys}
        \cup {SmtLeafNewSingle(k, v) : k \in Keys, v \in Values}
        \cup {SmtLeafInsert(SmtLeafNewSingle(Key(0, 0, 0), v), Key(1, 0, 0), v).leaf :
                  v \in Values}

ProofPaths ==
    {[i \in 1..n |-> ZERO] : n \in 0..MaxPathLen}
        \cup {SmtGet(t, Key(0, 0, 0)).proof.path.nodes : t \in {SmtNew, OneKeyTree}}

\* the root the proof computes (when it computes one) and another digest
ProofRoots(proof) ==
    LET r == SmtProofComputeRoot(proof, FALSE)
    IN  {ZERO} \cup (IF r.panic THEN {} ELSE {r.digest})

InitVerify ==
    /\ root = SmtNew.root
    /\ leaves = SmtNew.leaves
    /\ inner_nodes = SmtNew.inner_nodes
    /\ op = [name |-> "new", key |-> EMPTY, value |-> EMPTY, ret |-> EMPTY,
             old |-> EMPTY, verified |-> "none"]
    /\ map = [k \in Keys |-> EMPTY]
    /\ other = SmtNew
    /\ \E leaf \in ProofLeaves, nodes \in ProofPaths, key \in Keys,
          value \in AllValues, checks \in BOOLEAN :
          LET proof == [path |-> MerklePathNew(nodes), leaf |-> leaf]
          IN  \E rt \in ProofRoots(proof) :
                  vcall = [proof |-> proof, key |-> key, value |-> value,
                           root |-> rt, checks |-> checks, result |-> "pending"]

Verify ==
    /\ vcall.result = "pending"
    /\ vcall' = [vcall EXCEPT !.result =
                     SmtProofVerify(vcall.proof, vcall.key, vcall.value,
                                    vcall.root, vcall.checks)]
    /\ UNCHANGED <<root, leaves, inner_nodes, op, map, other>>

NextVerify == Verify

SpecVerify == InitVerify /\ [][NextVerify]_vars

\* ------------------------------------------------------ two trees side by side
\* `other` is a second Smt with a history of its own (it stays new in Spec and
\* SpecVerify); the keys are those of the sibling leaves 0 and 1
PairKeys == {Key(0, 0, 0), Key(0, 1, 0)}

InsertOther(key, value) ==
    /\ other' = SmtInsert(other, key, value).s
    /\ UNCHANGED <<root, leaves, inner_nodes, op, map, vcall>>

RemoveOther(key) ==
    /\ other' = SmtRemove(other, key).s
    /\ UNCHANGED <<root, leaves, inner_nodes, op, map, vcall>>

NextPair ==
    \/ \E key \in PairKeys, value \in AllValues : Insert(key, value)
    \/ \E key \in PairKeys : Remove(key)
    \/ \E key \in PairKeys, value \in AllValues : InsertOther(key, value)
    \/ \E key \in PairKeys : RemoveOther(key)

SpecPair == Init /\ [][NextPair]_vars

\* ---------------------------------------------------------------------- claims
LeafIndexOf(key) == key_to_leaf_index(key).value

\* get(key) followed by proof.verify(key, value, get_root()) on tree s
GetVerifies(s, key) ==
    LET g == SmtGet(s, key)
    IN  SmtProofVerify(g.proof, key, g.value, get_root(s), TRUE) = "true"

\* C1: in every reachable state and for every key, the proof returned by
\* get(k) verifies (k, returned value) against get_root().
C1_GetProofVerifies == \A k \in Keys : GetVerifies(Smt, k)

\* C2: after insert(k, v) with v # EMPTY (also when k already mapped to v),
\* get(k) returns v with a proof that verifies against get_root().
C2_RoundTrip ==
    (op.name = "insert" /\ op.value # EMPTY) =>
        /\ SmtGet(Smt, op.key).value = op.value
        /\ GetVerifies(Smt, op.key)

\* C3: for a key that maps to EMPTY and v # EMPTY, insert(k, v) then
\* remove(k) returns v and restores the root to its value before the insert.
C3_InsertRemoveInverse ==
    \A k \in Keys, v \in Values :
        SmtGet(Smt, k).value = EMPTY =>
            LET inserted == SmtInsert(Smt, k, v)
                removed  == SmtRemove(inserted.s, k)
            IN  /\ removed.ret = v
                /\ get_root(removed.s) = get_root(Smt)

\* C4: the returned values refine a plain map with default EMPTY: get(k) is
\* the map's value, insert and remove return the value the key had before the
\* call, and a call changes the value of its own key only.
C4_RefinesMap ==
    /\ \A k \in Keys : SmtGet(Smt, k).value = map[k]
    /\ op.name \in {"insert", "remove", "get"} => op.ret = op.old

C4_Witness ==
    /\ op.name = "insert"
    /\ op.old \notin {EMPTY, op.value}
    /\ \E k \in Keys \ {op.key} :
           LeafIndexOf(k) = LeafIndexOf(op.key) /\ map[k] # EMPTY

\* C5: a tree just created has the depth-0 empty-subtree root, which is
\* hash_pair(entry(1), entry(1)), and for every key get returns EMPTY with a
\* proof that verifies against that root.
C5_FreshTree ==
    op.name = "new" =>
        /\ get_root(Smt) = entry(LEAF_DEPTH, 0)
        /\ get_root(Smt) = hash_pair(entry(LEAF_DEPTH, 1), entry(LEAF_DEPTH, 1))
        /\ \A k \in Keys : SmtGet(Smt, k).value = EMPTY /\ GetVerifies(Smt, k)

C5_Witness == op.name = "new" /\ DOMAIN leaves = {} /\ DOMAIN inner_nodes = {}

\* the three conditions of C6 on a finished verify call
VerifyConditions ==
    /\ key_to_leaf_index(vcall.key) = vcall.proof.leaf.index
    /\ (IF vcall.key \in DOMAIN vcall.proof.leaf.kvs
        THEN vcall.proof.leaf.kvs[vcall.key]
        ELSE EMPTY) = vcall.value
    /\ LET r == SmtProofComputeRoot(vcall.proof, vcall.checks)
       IN  ~r.panic /\ r.digest = vcall.root

\* C6: verify returns true exactly when the key's leaf index is the proof
\* leaf's, the leaf maps key to value (absent counts as EMPTY) and
\* compute_root() equals root; in every other case it returns false; a proof
\* from get(k) verifies neither another value nor a key of another leaf.
C6_VerifyIff ==
    /\ vcall.result \notin {"idle", "pending"} =>
           vcall.result = (IF VerifyConditions THEN "true" ELSE "false")
    /\ \A k \in Keys, k2 \in Keys, v2 \in AllValues :
           LET g == SmtGet(Smt, k)
           IN  ((k2 = k /\ v2 # g.value) \/ LeafIndexOf(k2) # LeafIndexOf(k)) =>
                   SmtProofVerify(g.proof, k2, v2, get_root(Smt), TRUE) # "true"

\* C7: verify on any proof built from the public fields returns true or
\* false and never panics.
C7_VerifyNeverPanics == vcall.result # "panic"

\* C8: two distinct keys of one leaf inserted with distinct non-EMPTY values
\* are both returned by get with proofs that verify; the proof leaf holds both
\* entries and its hash is not that of a bucket holding one of them; after
\* remove(k1), get(k2) is still v2 and get(k1) is EMPTY, both proofs verifying.
C8_CollisionBuckets ==
    \A k1 \in Keys, k2 \in Keys, v1 \in Values, v2 \in Values :
        (k1 # k2 /\ LeafIndexOf(k1) = LeafIndexOf(k2) /\ v1 # v2) =>
            LET s2 == SmtInsert(SmtInsert(Smt, k1, v1).s, k2, v2).s
                g1 == SmtGet(s2, k1)
                g2 == SmtGet(s2, k2)
                s3 == SmtRemove(s2, k1).s
            IN  /\ g1.value = v1 /\ g2.value = v2
                /\ GetVerifies(s2, k1) /\ GetVerifies(s2, k2)
                /\ g1.proof.leaf.kvs = (k1 :> v1) @@ (k2 :> v2)
                /\ g2.proof.leaf = g1.proof.leaf
                /\ SmtLeafHash(g1.proof.leaf) \notin
                       {None, SmtLeafHash(SmtLeafNewSingle(k1, v1)),
                        SmtLeafHash(SmtLeafNewSingle(k2, v2))}
                /\ SmtGet(s3, k2).value = v2 /\ GetVerifies(s3, k2)
                /\ SmtGet(s3, k1).value = EMPTY /\ GetVerifies(s3, k1)

\* C9: a second consecutive insert(k, v) with v # EMPTY returns v and leaves
\* the root, the leaf map and the inner-node map as the first insert left them.
C9_IdempotentInsert ==
    \A k \in Keys, v \in Values :
        LET first  == SmtInsert(Smt, k, v)
            second == SmtInsert(first.s, k, v)
        IN  second.ret = v /\ second.s = first.s

C9_Witness ==
    /\ op.name = "insert" /\ op.value # EMPTY /\ op.ret = op.value
    /\ LeafIndexOf(op.key) \in DOMAIN leaves
    /\ leaves[LeafIndexOf(op.key)].kvs[op.key] = op.value

\* C10: insert(k, EMPTY) and remove(k) return the same value and produce the
\* same root, leaf map and inner-node map, and insert(k, EMPTY) creates no
\* leaf entry.
C10_EmptyIsRemove ==
    \A k \in Keys :
        LET inserted == SmtInsert(Smt, k, EMPTY)
        IN  /\ inserted = SmtRemove(Smt, k)
            /\ DOMAIN inserted.s.leaves \subseteq DOMAIN leaves
            /\ \A i \in DOMAIN inserted.s.leaves :
                   k \notin DOMAIN inserted.s.leaves[i].kvs

C10_Witness ==
    /\ op.name = "insert" /\ op.value = EMPTY /\ op.ret # EMPTY
    /\ \A i \in DOMAIN leaves : op.key \notin DOMAIN leaves[i].kvs

\* C11: remove of a key whose leaf does not exist, or whose leaf does not
\* contain it, returns EMPTY and leaves root, leaf map and inner-node map as
\* they were.
C11_RemoveAbsentIsNoOp ==
    \A k \in Keys :
        (\/ LeafIndexOf(k) \notin DOMAIN leaves
         \/ k \notin DOMAIN leaves[LeafIndexOf(k)].kvs) =>
            SmtRemove(Smt, k) = [s |-> Smt, ret |-> EMPTY]

\* a remove of a key of a missing leaf was made beside a stored bucket that
\* lacks one of its keys
C11_Witness ==
    /\ op.name = "remove" /\ op.ret = EMPTY
    /\ LeafIndexOf(op.key) \notin DOMAIN leaves
    /\ \E k \in Keys :
           /\ LeafIndexOf(k) \in DOMAIN leaves
           /\ k \notin DOMAIN leaves[LeafIndexOf(k)].kvs
           /\ DOMAIN leaves[LeafIndexOf(k)].kvs # {}

\* C12: get(key) leaves the root, the leaf map and the inner-node map as they
\* were, also when it builds a placeholder for an absent leaf.
C12_GetDoesNotMutate ==
    [][op'.name = "get" => UNCHANGED <<root, leaves, inner_nodes>>]_vars

C12_Witness ==
    /\ op.name = "get"
    /\ LeafIndexOf(op.key) \notin DOMAIN leaves
    /\ DOMAIN inner_nodes # {}

\* the digest of the subtree at position (depth, value) as the leaf buckets
\* lv determine it: an empty or absent leaf counts as the zero sentinel
RECURSIVE SubtreeDigest(_, _, _)
SubtreeDigest(lv, depth, value) ==
    IF depth >= LEAF_DEPTH
    THEN LET h == IF value \in DOMAIN lv THEN SmtLeafHash(lv[value]) ELSE None
         IN  IF h = None THEN ZERO ELSE h[1]
    ELSE hash_pair(SubtreeDigest(lv, depth + 1, 2 * value),
                   SubtreeDigest(lv, depth + 1, 2 * value + 1))

\* the node positions of depth 0 .. LEAF_DEPTH - 1
InnerPositions ==
    {[depth |-> d, value |-> v] : d \in 0..(LEAF_DEPTH - 1),
                                  v \in 0..(2 ^ LEAF_DEPTH - 1)}

\* C13: for every node position p above the leaves, get_inner_node(p) is the
\* pair of digests of p's two child subtrees as the leaf buckets determine
\* them, the root is hash_pair of the pair at the root position, and a
\* position without a stored entry has two canonically empty child subtrees.
C13_MerkleConsistent ==
    /\ \A p \in InnerPositions :
           p.value < 2 ^ p.depth =>
               LET l == SubtreeDigest(leaves, p.depth + 1, 2 * p.value)
                   r == SubtreeDigest(leaves, p.depth + 1, 2 * p.value + 1)
               IN  /\ get_inner_node(inner_nodes, p) = [left |-> l, right |-> r]
                   /\ p \notin DOMAIN inner_nodes =>
                          /\ l = entry(LEAF_DEPTH, p.depth + 1)
                          /\ r = entry(LEAF_DEPTH, p.depth + 1)
    /\ LET top == get_inner_node(inner_nodes, [depth |-> 0, value |-> 0])
       IN  root = hash_pair(top.left, top.right)

\* the single loop of spec section 4.4: the digest is seeded with the leaf
\* hash or the zero sentinel at depth LEAF_DEPTH and every parent position is
\* compared, then pruned or stored
UnifiedRecompute(s, leaf_index, leaf_hash) ==
    LET done == RecomputeLoop(s.inner_nodes,
                              IF leaf_hash = None THEN ZERO ELSE leaf_hash[1],
                              NodeIndexFrom(leaf_index), LEAF_DEPTH - 1)
    IN  [s EXCEPT !.inner_nodes = done.inner_nodes, !.root = done.root]

\* the removal of key empties its bucket
EmptiesBucket(s, key) ==
    /\ LeafIndexOf(key) \in DOMAIN s.leaves
    /\ DOMAIN s.leaves[LeafIndexOf(key)].kvs = {key}

\* C14: for every remove that empties a bucket, the root and the inner-node
\* map the code produces are those of the single unified loop seeded with the
\* zero sentinel.
C14_SpecialCaseIsUnifiedLoop ==
    \A k \in Keys :
        EmptiesBucket(Smt, k) =>
            LET code    == SmtRemove(Smt, k).s
                unified == UnifiedRecompute(
                               [Smt EXCEPT !.leaves[LeafIndexOf(k)] =
                                   SmtLeafRemove(leaves[LeafIndexOf(k)], k).leaf],
                               key_to_leaf_index(k), None)
            IN  /\ code.root = unified.root
                /\ code.inner_nodes = unified.inner_nodes

\* C15: no entry stored in the inner-node map at a position of depth d is the
\* default pair (entry(d+1), entry(d+1)), i.e. none hashes to entry(d).
C15_Sparsity ==
    \A p \in DOMAIN inner_nodes :
        /\ inner_nodes[p] # [left  |-> entry(LEAF_DEPTH, p.depth + 1),
                             right |-> entry(LEAF_DEPTH, p.depth + 1)]
        /\ hash_pair(inner_nodes[p].left, inner_nodes[p].right)
               # entry(LEAF_DEPTH, p.depth)

\* a remove has pruned the path up to the root beside a path still stored
C15_Witness ==
    /\ op.name = "remove" /\ op.ret # EMPTY
    /\ \E p \in InnerPositions :
           /\ p.depth = 1 /\ p.value < 2
           /\ p \notin DOMAIN inner_nodes
           /\ \E q \in DOMAIN inner_nodes : q.depth = 1

\* the leaf that Smt::get, Smt::insert and Smt::remove reach for key
LeafReachedFor(s, key) ==
    IF LeafIndexOf(key) \in DOMAIN s.leaves
    THEN s.leaves[LeafIndexOf(key)]
    ELSE SmtLeafNew(key_to_leaf_index(key))

\* C16: every leaf stored under index i has index field i and holds only keys
\* whose leaf index is i, so the index assertions of SmtLeaf::insert and
\* SmtLeaf::get_direct hold whenever Smt::insert, remove or get reach them.
C16_LeafIndexInvariant ==
    /\ \A i \in DOMAIN leaves :
           /\ leaves[i].index = [value |-> i]
           /\ \A k \in DOMAIN leaves[i].kvs : key_to_leaf_index(k) = [value |-> i]
    /\ \A k \in Keys : SmtLeafIndexAssertion(LeafReachedFor(Smt, k), k)

\* a collision bucket and a bucket of another index are stored
C16_Witness ==
    /\ 0 \in DOMAIN leaves /\ Cardinality(DOMAIN leaves[0].kvs) = 2
    /\ \E i \in DOMAIN leaves : i # 0 /\ DOMAIN leaves[i].kvs # {}

\* the keys that hold a value in tree s
KeysHeld(s) == {k \in Keys : SmtGet(s, k).value # EMPTY}

RECURSIVE InsertAll(_, _, _)
InsertAll(s, from, order) ==
    IF order = <<>>
    THEN s
    ELSE InsertAll(SmtInsert(s, Head(order), SmtGet(from, Head(order)).value).s,
                   from, Tail(order))

\* a fresh tree into which exactly the non-EMPTY pairs of s are inserted
FreshTreeOf(s) == InsertAll(SmtNew, s, KeysAscending(KeysHeld(s)))

\* C17: the root is the root of a fresh tree holding exactly the current
\* non-EMPTY pairs; when every key maps to EMPTY it is the empty-tree root; an
\* emptied bucket gives the same root and the same proofs as one that never
\* existed.
C17_HistoryIndependent ==
    LET fresh == FreshTreeOf(Smt)
    IN  /\ get_root(Smt) = get_root(fresh)
        /\ KeysHeld(Smt) = {} => get_root(Smt) = get_root(SmtNew)
        /\ \A k \in Keys : SmtGet(Smt, k).proof = SmtGet(fresh, k).proof

\* C18: two reachable trees with the same root map every key to the same
\* value, and a proof that get returns in one tree verifies (k, v) against the
\* root of the other only if k maps to v there.
C18_RootBindsContent ==
    /\ get_root(Smt) = get_root(other) =>
           \A k \in Keys : SmtGet(Smt, k).value = SmtGet(other, k).value
    /\ \A k \in Keys, v \in AllValues :
           SmtProofVerify(SmtGet(Smt, k).proof, k, v, get_root(other), TRUE)
                   = "true"
               => SmtGet(other, k).value = v

\* the leaf map lv without its empty leaves
NonEmptyLeaves(lv) ==
    [i \in {j \in DOMAIN lv : ~SmtLeafIsEmpty(lv[j])} |-> lv[i]]

\* C19 as claimed: every leaf held in the leaf map contains at least one key,
\* so the leaf map is that of any tree holding the same content.
C19_LeavesSparse ==
    /\ \A i \in DOMAIN leaves : ~SmtLeafIsEmpty(leaves[i])
    /\ leaves = FreshTreeOf(Smt).leaves

\* the empty leaves of the result r of a call on key are those that were
\* empty before, and the leaf of key when the call removed its last entry
EmptyOnlyByRemove(r, key, removes) ==
    \A i \in DOMAIN r.s.leaves :
        SmtLeafIsEmpty(r.s.leaves[i]) =>
            \/ i \in DOMAIN leaves /\ SmtLeafIsEmpty(leaves[i])
            \/ i = LeafIndexOf(key) /\ removes /\ r.ret # EMPTY

\* C19 as amended: a leaf of the leaf map is empty only when a remove (or an
\* insert of EMPTY) took its last key, no call creates an empty leaf otherwise,
\* and the non-empty leaves are those of any tree holding the same content.
C19_EmptyLeavesOnlyByRemove ==
    /\ \A k \in Keys :
           /\ EmptyOnlyByRemove(SmtRemove(Smt, k), k, TRUE)
           /\ \A v \in AllValues :
                  EmptyOnlyByRemove(SmtInsert(Smt, k, v), k, v = EMPTY)
    /\ NonEmptyLeaves(leaves) = FreshTreeOf(Smt).leaves

\* a remove has emptied a bucket, which stays in the map beside a bucket that
\* holds a key
C19_Witness ==
    /\ op.name = "remove" /\ op.ret # EMPTY
    /\ LeafIndexOf(op.key) \in DOMAIN leaves
    /\ SmtLeafIsEmpty(leaves[LeafIndexOf(op.key)])
    /\ \E i \in DOMAIN leaves : ~SmtLeafIsEmpty(leaves[i])

====
